---- MODULE Spec2Model ----
(***************************************************************************)
(* Model of the VLC object core (src/src/misc/objects.c) and of the Lua    *)
(* object wrapper (src/modules/lua/libs/objects.c).                        *)
(*                                                                         *)
(* Objects are addresses 1..NObjs; NULL is 0.  A freed address may be      *)
(* handed out again by malloc.  Threads run the public operations step by  *)
(* step; one step is one atomic memory operation or one critical section   *)
(* of tree_lock whose body touches only data protected by that lock.       *)
(***************************************************************************)
EXTENDS Integers, Sequences, FiniteSets, TLC

\* ---------------------------------------------------------------- bounds
NThreads == 2
NObjs == 4
MaxOps == 5
MaxTab == 1
MaxWrappers == 3
NHooks == 2
DeepExtra == 3

NULL == 0
NOARG == -1
DumpMaxLevel == 100
VLC_SUCCESS == "VLC_SUCCESS"
VLC_ENOOBJ == "VLC_ENOOBJ"

Threads == 1..NThreads
Objs == 1..NObjs
\* the destructors a client can set: a function, or NULL
Hooks == 0..NHooks

VARIABLES
    refs,        \* priv->refs, per address
    parent,      \* priv->parent, per address
    alive,       \* the block at this address is allocated
    ndestroy,    \* times vlc_object_destroy ran on the current block
    cmds,        \* command variables with a callback registered on the object
    tree_list,   \* the global collection, in insertion order
    tree_lock,   \* owner of the structural lock, or NULL
    own,         \* references each thread owns (client bookkeeping)
    op,          \* the public operation a thread is executing
    pc,          \* position of the thread inside it
    l_obj,       \* obj argument of the running function
    l_refs,      \* local "refs"
    l_parent,    \* local "parent" of vlc_object_release
    l_pos,       \* list cursor of vlc_children_foreach
    l_max,       \* max argument of vlc_list_children
    l_count,     \* local "count" of vlc_list_children
    l_tab,       \* the output table of vlc_list_children
    l_p,         \* local "p" of VarsCommand after ObjectExists
    l_arg,       \* the pointer parsed from newval.psz_string, or NOARG
    l_ret,       \* value returned by the finished command
    l_out,       \* lines printed by the tree command
    l_stack,     \* open calls of DumpStructure, innermost last
    failed,      \* the assertion that aborted the process, or "none"
    nops,        \* operations started so far
    relby,       \* threads that called vlc_object_release on the block
    pf_destructor, \* priv->pf_destructor, per address
    var_lock,    \* owner of priv->var_lock, per address, or NULL
    events,      \* calls made on the block since malloc, in order
    lastfn,      \* argument of the last vlc_object_set_destructor call
    mt_exists,   \* Lua: the "vlc_object" metatable is in the registry
    mt_gc,       \* Lua: its __gc field
    wrappers,    \* Lua: the userdata created so far
    released     \* Lua: release calls made by the collector, per wrapper

corevars == <<refs, parent, alive, ndestroy, cmds, tree_list, tree_lock, own,
              op, pc, l_obj, l_refs, l_parent, l_pos, l_max, l_count, l_tab,
              l_p, l_arg, l_ret, l_out, l_stack, failed, nops, relby,
              pf_destructor, var_lock, events, lastfn>>
storevars == <<pf_destructor, var_lock, events, lastfn>>
luavars == <<mt_exists, mt_gc, wrappers, released>>
vars == <<refs, parent, alive, ndestroy, cmds, tree_list, tree_lock, own,
          op, pc, l_obj, l_refs, l_parent, l_pos, l_max, l_count, l_tab,
          l_p, l_arg, l_ret, l_out, l_stack, failed, nops, relby,
          pf_destructor, var_lock, events, lastfn,
          mt_exists, mt_gc, wrappers, released>>

\* ------------------------------------------------------------- helpers
Running == failed = "none"

\* priv->refs is a 32-bit unsigned counter, held here as its bit pattern read
\* as a signed 32-bit integer: 0xFFFFFFFF is -1, and comparisons are unsigned
FetchAdd(r) == r + 1
FetchSub(r) == r - 1
UGt(r, n) == r > n \/ r < 0

\* faulty variant: the object is left in the collection
ListRemove_Keep(s, o) == s

\* vlc_list_remove
ListRemove(s, o) == SelectSeq(s, LAMBDA m : m # o)

\* vlc_children_foreach: the members whose parent is o, in list order
Children(o) == SelectSeq(tree_list, LAMBDA m : parent[m] = o)

ObjectHasChildLocked(o) == \E i \in 1..Len(tree_list) : parent[tree_list[i]] = o

\* true when no later entry of the collection has the same parent
ObjectIsLastChild(o, p) ==
    LET i == CHOOSE k \in 1..Len(tree_list) : tree_list[k] = o
    IN  \A k \in (i+1)..Len(tree_list) : parent[tree_list[k]] # p

RECURSIVE PrintObjectPrefix(_, _)
PrintObjectPrefix(o, last) ==
    IF parent[o] = NULL THEN <<>>
    ELSE PrintObjectPrefix(parent[o], FALSE) \o
         << IF ObjectIsLastChild(o, parent[o])
            THEN (IF last THEN "corner" ELSE "blank")
            ELSE (IF last THEN "tee" ELSE "bar") >>

PrintObject(o) ==
    [obj |-> o, prefix |-> PrintObjectPrefix(o, TRUE),
     branch |-> ObjectHasChildLocked(o)]

RECURSIVE DumpStructure(_, _)
RECURSIVE DumpEach(_, _)
DumpEach(s, level) ==
    IF s = <<>> THEN <<>>
    ELSE DumpStructure(Head(s), level) \o DumpEach(Tail(s), level)

\* faulty variant: the walk stops below the children of the dumped object
DumpStructure_Flat(o, level) ==
    <<PrintObject(o)>> \o
    (IF level > 0 THEN <<>> ELSE DumpEach(Children(o), level + 1))

DumpStructure(o, level) ==
    <<PrintObject(o)>> \o
    (IF level > DumpMaxLevel THEN <<>> ELSE DumpEach(Children(o), level + 1))

RECURSIVE ObjectExists(_, _)
RECURSIVE ExistsEach(_, _)
ExistsEach(s, p) ==
    IF s = <<>> THEN NULL
    ELSE LET r == ObjectExists(Head(s), p)
         IN  IF r # NULL THEN r ELSE ExistsEach(Tail(s), p)

\* faulty variant: only root and its direct children are searched
ObjectExists_Shallow(root, p) ==
    IF root = p THEN root
    ELSE IF \E i \in 1..Len(Children(root)) : Children(root)[i] = p
         THEN p ELSE NULL

ObjectExists(root, p) ==
    IF root = p THEN root ELSE ExistsEach(Children(root), p)


\* ---------------------------------------------------------------- Init
Init ==
    /\ refs = [o \in Objs |-> 0]
    /\ parent = [o \in Objs |-> NULL]
    /\ alive = [o \in Objs |-> FALSE]
    /\ ndestroy = [o \in Objs |-> 0]
    /\ cmds = [o \in Objs |-> {}]
    /\ tree_list = <<>>
    /\ tree_lock = NULL
    /\ own = [t \in Threads |-> [o \in Objs |-> 0]]
    /\ op = [t \in Threads |-> "none"]
    /\ pc = [t \in Threads |-> "idle"]
    /\ l_obj = [t \in Threads |-> NULL]
    /\ l_refs = [t \in Threads |-> 0]
    /\ l_parent = [t \in Threads |-> NULL]
    /\ l_pos = [t \in Threads |-> 0]
    /\ l_max = [t \in Threads |-> 0]
    /\ l_count = [t \in Threads |-> 0]
    /\ l_tab = [t \in Threads |-> <<>>]
    /\ l_p = [t \in Threads |-> NULL]
    /\ l_arg = [t \in Threads |-> NOARG]
    /\ l_ret = [t \in Threads |-> VLC_SUCCESS]
    /\ l_out = [t \in Threads |-> <<>>]
    /\ l_stack = [t \in Threads |-> <<>>]
    /\ failed = "none"
    /\ nops = 0
    /\ relby = [o \in Objs |-> {}]
    /\ pf_destructor = [o \in Objs |-> NULL]
    /\ var_lock = [o \in Objs |-> NULL]
    /\ events = [o \in Objs |-> <<>>]
    /\ lastfn = [o \in Objs |-> NULL]
    /\ mt_exists = FALSE
    /\ mt_gc = "nil"
    /\ wrappers = <<>>
    /\ released = <<>>

\* malloc may return address a: a block freed earlier, or the first of the
\* addresses never handed out (these are indistinguishable from each other)
Malloc(a) ==
    /\ ~alive[a]
    /\ ndestroy[a] = 0 => \A b \in Objs : b < a => (alive[b] \/ ndestroy[b] > 0)

\* a client starts a public operation
StartOp(t, name) ==
    /\ Running
    /\ pc[t] = "idle"
    /\ nops < MaxOps
    /\ nops' = nops + 1
    /\ op' = [op EXCEPT ![t] = name]

\* vlc_mutex_lock(&priv->var_lock) at the start of a variable call on o
VarLock(t, o) ==
    /\ var_lock[o] = NULL
    /\ var_lock' = [var_lock EXCEPT ![o] = t]

\* vlc_mutex_unlock(&priv->var_lock) at the end of a variable call on o
VarUnlock(t, o) == var_lock' = [var_lock EXCEPT ![o] = NULL]

\* the assertion of the running step: records the abort when it fails
Check(cond, label) == failed' = IF cond THEN "none" ELSE label

\* ------------------------------------------------------ vlc_object_hold
\* a client that owns a reference takes another one, for itself or for the
\* thread u it hands the pointer to
Hold(t, o, u) ==
    /\ Running /\ pc[t] = "idle" /\ nops < MaxOps
    /\ own[t][o] > 0
    /\ nops' = nops + 1
    /\ refs' = [refs EXCEPT ![o] = FetchAdd(@)]
    /\ Check(alive[o] /\ UGt(refs[o], 0), "hold_refs")
    /\ own' = [own EXCEPT ![u][o] = @ + 1]
    /\ UNCHANGED <<parent, alive, ndestroy, cmds, tree_list, tree_lock, op, pc,
                   l_obj, l_refs, l_parent, l_pos, l_max, l_count, l_tab,
                   l_ret, l_out>>
    /\ UNCHANGED <<l_p, l_arg, relby>>
    /\ UNCHANGED storevars
    /\ UNCHANGED <<l_stack, luavars>>

\* --------------------------------------------- vlc_object_set_destructor
\* a client that owns a reference stores fn in priv->pf_destructor
SetDestructor(t, o, fn) ==
    /\ Running /\ pc[t] = "idle" /\ nops < MaxOps
    /\ own[t][o] > 0
    /\ nops' = nops + 1
    /\ pf_destructor' = [pf_destructor EXCEPT ![o] = fn]
    /\ lastfn' = [lastfn EXCEPT ![o] = fn]
    /\ Check(alive[o], "use_after_free")
    /\ UNCHANGED <<refs, parent, alive, ndestroy, cmds, tree_list, tree_lock,
                   own, op, pc, l_obj, l_refs, l_parent, l_pos, l_max,
                   l_count, l_tab, l_ret, l_out>>
    /\ UNCHANGED <<l_p, l_arg, relby, var_lock, events>>
    /\ UNCHANGED <<l_stack, luavars>>

\* ---------------------------------------------------- vlc_custom_create
\* faulty variant: the parent is held before the allocation is tested
CreateFail_Leak(t, p) ==
    /\ Running /\ pc[t] = "idle" /\ nops < MaxOps
    /\ p = NULL \/ (p \in Objs /\ own[t][p] > 0)
    /\ nops' = nops + 1
    /\ refs' = IF p = NULL THEN refs ELSE [refs EXCEPT ![p] = FetchAdd(@)]
    /\ UNCHANGED <<parent, alive, ndestroy, cmds, tree_list, tree_lock,
                   own, op, pc, l_obj, l_refs, l_parent, l_pos, l_max,
                   l_count, l_tab, l_ret, l_out, failed>>
    /\ UNCHANGED <<l_p, l_arg, relby>>
    /\ UNCHANGED storevars
    /\ UNCHANGED <<l_stack, luavars>>

\* malloc returned NULL
CreateFail(t, p) ==
    /\ Running /\ pc[t] = "idle" /\ nops < MaxOps
    /\ p = NULL \/ (p \in Objs /\ own[t][p] > 0)
    /\ nops' = nops + 1
    /\ UNCHANGED <<refs, parent, alive, ndestroy, cmds, tree_list, tree_lock,
                   own, op, pc, l_obj, l_refs, l_parent, l_pos, l_max,
                   l_count, l_tab, l_ret, l_out, failed>>
    /\ UNCHANGED <<l_p, l_arg, relby>>
    /\ UNCHANGED storevars
    /\ UNCHANGED <<l_stack, luavars>>

\* one entry of the log: the call and, for a destructor, the function
Ev(name, fn) == [ev |-> name, fn |-> fn]

\* the four variable calls of a new parentless object
RootVarCalls ==
    <<Ev("var_Create tree", NULL), Ev("var_AddCallback tree", NULL),
      Ev("var_Create vars", NULL), Ev("var_AddCallback vars", NULL)>>

\* allocation and initialisation of a parentless object, up to the point
\* where the first variable call has taken the variable lock of the object
CreateRoot(t, a) ==
    /\ StartOp(t, "create")
    /\ Malloc(a)
    /\ alive' = [alive EXCEPT ![a] = TRUE]
    /\ ndestroy' = [ndestroy EXCEPT ![a] = 0]
    /\ refs' = [refs EXCEPT ![a] = 1]
    /\ parent' = [parent EXCEPT ![a] = NULL]
    /\ cmds' = [cmds EXCEPT ![a] = {}]
    /\ l_obj' = [l_obj EXCEPT ![t] = a]
    /\ pc' = [pc EXCEPT ![t] = "cr_vars"]
    /\ UNCHANGED <<tree_list, tree_lock, own, l_refs, l_parent,
                   l_pos, l_max, l_count, l_tab, l_ret, l_out, failed>>
    /\ relby' = [relby EXCEPT ![a] = {}]
    /\ UNCHANGED <<l_p, l_arg>>
    /\ pf_destructor' = [pf_destructor EXCEPT ![a] = NULL]
    /\ lastfn' = [lastfn EXCEPT ![a] = NULL]
    /\ events' = [events EXCEPT ![a] = <<>>]
    /\ VarLock(t, a)
    /\ UNCHANGED <<l_stack, luavars>>

\* "tree" and "vars" are created and their callbacks registered (the four
\* calls lock and unlock in turn; nobody else knows the object yet), return
CreateVars(t) ==
    /\ Running /\ pc[t] = "cr_vars"
    /\ LET a == l_obj[t] IN
       /\ cmds' = [cmds EXCEPT ![a] = {"tree", "vars"}]
       /\ events' = [events EXCEPT ![a] = @ \o RootVarCalls]
       /\ VarUnlock(t, a)
       /\ own' = [own EXCEPT ![t][a] = @ + 1]
    /\ l_obj' = [l_obj EXCEPT ![t] = NULL]
    /\ pc' = [pc EXCEPT ![t] = "idle"]
    /\ op' = [op EXCEPT ![t] = "none"]
    /\ UNCHANGED <<refs, parent, alive, ndestroy, tree_list, tree_lock,
                   l_refs, l_parent, l_pos, l_max, l_count, l_tab, l_ret,
                   l_out, failed, nops>>
    /\ UNCHANGED <<l_p, l_arg, relby, pf_destructor, lastfn>>
    /\ UNCHANGED <<l_stack, luavars>>

\* faulty variant: the child takes no reference on its parent
CreateChild_NoHold(t, p, a) ==
    /\ StartOp(t, "create")
    /\ own[t][p] > 0
    /\ Malloc(a)
    /\ alive' = [alive EXCEPT ![a] = TRUE]
    /\ ndestroy' = [ndestroy EXCEPT ![a] = 0]
    /\ refs' = [refs EXCEPT ![a] = 1]
    /\ failed' = failed
    /\ parent' = [parent EXCEPT ![a] = p]
    /\ cmds' = [cmds EXCEPT ![a] = {}]
    /\ l_obj' = [l_obj EXCEPT ![t] = a]
    /\ pc' = [pc EXCEPT ![t] = "cr_attach"]
    /\ UNCHANGED <<tree_list, tree_lock, own, l_refs, l_parent, l_pos, l_max,
                   l_count, l_tab, l_ret, l_out>>
    /\ relby' = [relby EXCEPT ![a] = {}]
    /\ UNCHANGED <<l_p, l_arg>>
    /\ pf_destructor' = [pf_destructor EXCEPT ![a] = NULL]
    /\ lastfn' = [lastfn EXCEPT ![a] = NULL]
    /\ events' = [events EXCEPT ![a] = <<>>]
    /\ var_lock' = [var_lock EXCEPT ![a] = NULL]
    /\ UNCHANGED <<l_stack, luavars>>

\* allocation and initialisation of a child, up to the hold on the parent
CreateChild(t, p, a) ==
    /\ StartOp(t, "create")
    /\ own[t][p] > 0
    /\ Malloc(a)
    /\ alive' = [alive EXCEPT ![a] = TRUE]
    /\ ndestroy' = [ndestroy EXCEPT ![a] = 0]
    /\ refs' = [refs EXCEPT ![a] = 1, ![p] = FetchAdd(@)]
    /\ Check(alive[p] /\ UGt(refs[p], 0), "hold_refs")
    /\ parent' = [parent EXCEPT ![a] = p]
    /\ cmds' = [cmds EXCEPT ![a] = {}]
    /\ l_obj' = [l_obj EXCEPT ![t] = a]
    /\ pc' = [pc EXCEPT ![t] = "cr_attach"]
    /\ UNCHANGED <<tree_list, tree_lock, own, l_refs, l_parent, l_pos, l_max,
                   l_count, l_tab, l_ret, l_out>>
    /\ relby' = [relby EXCEPT ![a] = {}]
    /\ UNCHANGED <<l_p, l_arg>>
    /\ pf_destructor' = [pf_destructor EXCEPT ![a] = NULL]
    /\ lastfn' = [lastfn EXCEPT ![a] = NULL]
    /\ events' = [events EXCEPT ![a] = <<>>]
    /\ var_lock' = [var_lock EXCEPT ![a] = NULL]
    /\ UNCHANGED <<l_stack, luavars>>

\* faulty variant: the child is not appended to the collection
CreateAttach_NoAppend(t) ==
    /\ Running /\ pc[t] = "cr_attach"
    /\ tree_lock = NULL
    /\ tree_list' = tree_list
    /\ own' = [own EXCEPT ![t][l_obj[t]] = @ + 1]
    /\ l_obj' = [l_obj EXCEPT ![t] = NULL]
    /\ pc' = [pc EXCEPT ![t] = "idle"]
    /\ op' = [op EXCEPT ![t] = "none"]
    /\ UNCHANGED <<refs, parent, alive, ndestroy, cmds, tree_lock, l_refs,
                   l_parent, l_pos, l_max, l_count, l_tab, l_ret, l_out,
                   failed, nops>>
    /\ UNCHANGED <<l_p, l_arg, relby>>
    /\ UNCHANGED storevars
    /\ UNCHANGED <<l_stack, luavars>>

\* the critical section that appends the child to the collection, and return
CreateAttach(t) ==
    /\ Running /\ pc[t] = "cr_attach"
    /\ tree_lock = NULL
    /\ tree_list' = Append(tree_list, l_obj[t])
    /\ own' = [own EXCEPT ![t][l_obj[t]] = @ + 1]
    /\ l_obj' = [l_obj EXCEPT ![t] = NULL]
    /\ pc' = [pc EXCEPT ![t] = "idle"]
    /\ op' = [op EXCEPT ![t] = "none"]
    /\ UNCHANGED <<refs, parent, alive, ndestroy, cmds, tree_lock, l_refs,
                   l_parent, l_pos, l_max, l_count, l_tab, l_ret, l_out,
                   failed, nops>>
    /\ UNCHANGED <<l_p, l_arg, relby>>
    /\ UNCHANGED storevars
    /\ UNCHANGED <<l_stack, luavars>>

\* --------------------------------------------------- vlc_object_release
\* faulty variant: the fast path is taken for every non-zero count
RelBranch_Fast(o, r) ==
    IF UGt(r, 0) THEN "rel_cas"
    ELSE IF parent[o] = NULL THEN "rel_root" ELSE "rel_slow"

\* where the fast-path loop goes for an observed count r
RelBranch(o, r) ==
    IF UGt(r, 1) THEN "rel_cas"
    ELSE IF parent[o] = NULL THEN "rel_root" ELSE "rel_slow"

\* faulty variant: every slow-path decrement is taken for the last one
IsLast_Always(r) == r >= 1

\* the test "refs == 1" on the value the slow-path decrement observed
IsLast(r) == r = 1

\* the function returns to its caller: the client, or the vars command
RelReturn(t) ==
    /\ l_obj' = [l_obj EXCEPT ![t] = NULL]
    /\ l_refs' = [l_refs EXCEPT ![t] = 0]
    /\ l_parent' = [l_parent EXCEPT ![t] = NULL]
    /\ IF op[t] = "vars"
       THEN /\ pc' = [pc EXCEPT ![t] = "vc_ret"]
            /\ l_ret' = [l_ret EXCEPT ![t] = VLC_SUCCESS]
            /\ op' = op
       ELSE /\ pc' = [pc EXCEPT ![t] = "idle"]
            /\ op' = [op EXCEPT ![t] = "none"]
            /\ l_ret' = l_ret

\* a client gives up one of the references it owns
Release(t, o) ==
    /\ StartOp(t, "release")
    /\ own[t][o] > 0
    /\ own' = [own EXCEPT ![t][o] = @ - 1]
    /\ l_obj' = [l_obj EXCEPT ![t] = o]
    /\ pc' = [pc EXCEPT ![t] = "rel_load"]
    /\ UNCHANGED <<refs, parent, alive, ndestroy, cmds, tree_list, tree_lock,
                   l_refs, l_parent, l_pos, l_max, l_count, l_tab, l_ret,
                   l_out, failed>>
    /\ relby' = [relby EXCEPT ![o] = @ \cup {t}]
    /\ UNCHANGED <<l_p, l_arg>>
    /\ UNCHANGED storevars
    /\ UNCHANGED <<l_stack, luavars>>

\* refs = atomic_load(&priv->refs), and the first test of the loop
RelLoad(t) ==
    /\ Running /\ pc[t] = "rel_load"
    /\ LET o == l_obj[t] IN
       /\ l_refs' = [l_refs EXCEPT ![t] = refs[o]]
       /\ pc' = [pc EXCEPT ![t] = RelBranch(o, refs[o])]
       /\ l_parent' = [l_parent EXCEPT ![t] = parent[o]]
       /\ Check(alive[o], "use_after_free")
    /\ UNCHANGED <<refs, parent, alive, ndestroy, cmds, tree_list, tree_lock,
                   own, op, l_obj, l_pos, l_max, l_count, l_tab, l_ret, l_out,
                   nops>>
    /\ UNCHANGED <<l_p, l_arg, relby>>
    /\ UNCHANGED storevars
    /\ UNCHANGED <<l_stack, luavars>>

\* fast path: one compare-and-swap; a spurious failure of the weak form
\* reloads the same value and is a stuttering step
RelCas(t) ==
    /\ Running /\ pc[t] = "rel_cas"
    /\ LET o == l_obj[t] IN
       IF refs[o] = l_refs[t]
       THEN /\ refs' = [refs EXCEPT ![o] = FetchSub(l_refs[t])]
            /\ RelReturn(t)
            /\ failed' = failed
       ELSE /\ l_refs' = [l_refs EXCEPT ![t] = refs[o]]
            /\ Check(UGt(refs[o], 0), "cas_refs")
            /\ pc' = [pc EXCEPT ![t] = RelBranch(o, refs[o])]
            /\ UNCHANGED <<refs, op, l_obj, l_parent, l_ret>>
    /\ UNCHANGED <<parent, alive, ndestroy, cmds, tree_list, tree_lock, own,
                   l_pos, l_max, l_count, l_tab, l_out, nops>>
    /\ UNCHANGED <<l_p, l_arg, relby>>
    /\ UNCHANGED storevars
    /\ UNCHANGED <<l_stack, luavars>>

\* root path: the decrement and its assertion
RelRoot(t) ==
    /\ Running /\ pc[t] = "rel_root"
    /\ LET o == l_obj[t] IN
       /\ l_refs' = [l_refs EXCEPT ![t] = refs[o]]
       /\ refs' = [refs EXCEPT ![o] = FetchSub(@)]
       /\ Check(refs[o] = 1, "root_refs")
    /\ pc' = [pc EXCEPT ![t] = "rel_root_chk"]
    /\ UNCHANGED <<parent, alive, ndestroy, cmds, tree_list, tree_lock, own,
                   op, l_obj, l_parent, l_pos, l_max, l_count, l_tab, l_ret,
                   l_out, nops>>
    /\ UNCHANGED <<l_p, l_arg, relby>>
    /\ UNCHANGED storevars
    /\ UNCHANGED <<l_stack, luavars>>

\* root path: assert(!ObjectHasChild(obj)), a critical section of its own
RelRootChk(t) ==
    /\ Running /\ pc[t] = "rel_root_chk"
    /\ tree_lock = NULL
    /\ Check(~ObjectHasChildLocked(l_obj[t]), "root_children")
    /\ pc' = [pc EXCEPT ![t] = "rel_hook"]
    /\ UNCHANGED <<refs, parent, alive, ndestroy, cmds, tree_list, tree_lock,
                   own, op, l_obj, l_refs, l_parent, l_pos, l_max, l_count,
                   l_tab, l_ret, l_out, nops>>
    /\ UNCHANGED <<l_p, l_arg, relby>>
    /\ UNCHANGED storevars
    /\ UNCHANGED <<l_stack, luavars>>

\* slow path: lock, decrement, and removal from the collection on 1 -> 0
RelSlow(t) ==
    /\ Running /\ pc[t] = "rel_slow"
    /\ tree_lock = NULL
    /\ tree_lock' = t
    /\ LET o == l_obj[t] IN
       /\ l_refs' = [l_refs EXCEPT ![t] = refs[o]]
       /\ refs' = [refs EXCEPT ![o] = FetchSub(@)]
       /\ Check(UGt(refs[o], 0), "slow_refs")
       /\ tree_list' = IF IsLast(refs[o]) THEN ListRemove(tree_list, o)
                       ELSE tree_list
    /\ pc' = [pc EXCEPT ![t] = "rel_unlock"]
    /\ UNCHANGED <<parent, alive, ndestroy, cmds, own, op, l_obj, l_parent,
                   l_pos, l_max, l_count, l_tab, l_ret, l_out, nops>>
    /\ UNCHANGED <<l_p, l_arg, relby>>
    /\ UNCHANGED storevars
    /\ UNCHANGED <<l_stack, luavars>>

\* faulty variant: the slow path keeps the structural lock
RelUnlock_KeepLock(t) ==
    /\ Running /\ pc[t] = "rel_unlock"
    /\ tree_lock' = tree_lock
    /\ IF IsLast(l_refs[t])
       THEN /\ pc' = [pc EXCEPT ![t] = "rel_chk"]
            /\ UNCHANGED <<op, l_obj, l_refs, l_parent, l_ret>>
       ELSE RelReturn(t)
    /\ UNCHANGED <<refs, parent, alive, ndestroy, cmds, tree_list, own, l_pos,
                   l_max, l_count, l_tab, l_out, failed, nops>>
    /\ UNCHANGED <<l_p, l_arg, relby>>
    /\ UNCHANGED storevars
    /\ UNCHANGED <<l_stack, luavars>>

\* slow path: unlock; return unless this was the last reference
RelUnlock(t) ==
    /\ Running /\ pc[t] = "rel_unlock"
    /\ tree_lock' = NULL
    /\ IF IsLast(l_refs[t])
       THEN /\ pc' = [pc EXCEPT ![t] = "rel_chk"]
            /\ UNCHANGED <<op, l_obj, l_refs, l_parent, l_ret>>
       ELSE RelReturn(t)
    /\ UNCHANGED <<refs, parent, alive, ndestroy, cmds, tree_list, own, l_pos,
                   l_max, l_count, l_tab, l_out, failed, nops>>
    /\ UNCHANGED <<l_p, l_arg, relby>>
    /\ UNCHANGED storevars
    /\ UNCHANGED <<l_stack, luavars>>

\* slow path: assert(!ObjectHasChild(obj))
RelChk(t) ==
    /\ Running /\ pc[t] = "rel_chk"
    /\ tree_lock = NULL
    /\ Check(~ObjectHasChildLocked(l_obj[t]), "children_left")
    /\ pc' = [pc EXCEPT ![t] = "rel_hook"]
    /\ UNCHANGED <<refs, parent, alive, ndestroy, cmds, tree_list, tree_lock,
                   own, op, l_obj, l_refs, l_parent, l_pos, l_max, l_count,
                   l_tab, l_ret, l_out, nops>>
    /\ UNCHANGED <<l_p, l_arg, relby>>
    /\ UNCHANGED storevars
    /\ UNCHANGED <<l_stack, luavars>>

\* faulty variant: the destructor is called after the callbacks are removed
DestroyCalls_HookAfter(o) ==
    (IF parent[o] = NULL
     THEN <<Ev("var_DelCallback vars", NULL),
            Ev("var_DelCallback tree", NULL)>>
     ELSE <<>>)
    \o (IF pf_destructor[o] # NULL
        THEN <<Ev("pf_destructor", pf_destructor[o])>> ELSE <<>>)

\* what vlc_object_destroy calls before var_DestroyAll
DestroyCalls(o) ==
    (IF pf_destructor[o] # NULL
     THEN <<Ev("pf_destructor", pf_destructor[o])>> ELSE <<>>)
    \o (IF parent[o] = NULL
        THEN <<Ev("var_DelCallback vars", NULL),
               Ev("var_DelCallback tree", NULL)>>
        ELSE <<>>)

\* what it calls from var_DestroyAll on
DestroyTail ==
    <<Ev("var_DestroyAll", NULL), Ev("vlc_cond_destroy", NULL),
      Ev("vlc_mutex_destroy", NULL), Ev("free", NULL)>>

\* faulty variant: the two callbacks of a parentless object are left registered
DestroyHook_KeepCallbacks(t) ==
    /\ Running /\ pc[t] = "rel_hook"
    /\ LET o == l_obj[t] IN
       /\ VarLock(t, o)
       /\ events' = [events EXCEPT ![o] = @ \o SelectSeq(DestroyCalls(o),
                                   LAMBDA e : e.ev = "pf_destructor")]
       /\ cmds' = cmds
       /\ Check(alive[o], "use_after_free")
    /\ pc' = [pc EXCEPT ![t] = "rel_destroy"]
    /\ UNCHANGED <<refs, parent, alive, ndestroy, tree_list, tree_lock,
                   own, op, l_obj, l_refs, l_parent, l_pos, l_max, l_count,
                   l_tab, l_ret, l_out, nops>>
    /\ UNCHANGED <<l_p, l_arg, relby, pf_destructor, lastfn>>
    /\ UNCHANGED <<l_stack, luavars>>

\* vlc_object_destroy(obj), first part: the destructor, the removal of the
\* two callbacks of a parentless object, and var_DestroyAll takes the lock
DestroyHook(t) ==
    /\ Running /\ pc[t] = "rel_hook"
    /\ LET o == l_obj[t] IN
       /\ VarLock(t, o)
       /\ events' = [events EXCEPT ![o] = @ \o DestroyCalls(o)]
       /\ cmds' = [cmds EXCEPT ![o] = IF parent[o] = NULL
                                       THEN @ \ {"vars", "tree"} ELSE @]
       /\ Check(alive[o], "use_after_free")
    /\ pc' = [pc EXCEPT ![t] = "rel_destroy"]
    /\ UNCHANGED <<refs, parent, alive, ndestroy, tree_list, tree_lock,
                   own, op, l_obj, l_refs, l_parent, l_pos, l_max, l_count,
                   l_tab, l_ret, l_out, nops>>
    /\ UNCHANGED <<l_p, l_arg, relby, pf_destructor, lastfn>>
    /\ UNCHANGED <<l_stack, luavars>>

\* faulty variant: the reference on the parent is never released
RelDestroy_NoParent(t) ==
    /\ Running /\ pc[t] = "rel_destroy"
    /\ LET o == l_obj[t] IN
       /\ Check(alive[o], "double_free")
       /\ alive' = [alive EXCEPT ![o] = FALSE]
       /\ ndestroy' = [ndestroy EXCEPT ![o] = @ + 1]
       /\ cmds' = [cmds EXCEPT ![o] = {}]
       /\ refs' = refs
       /\ parent' = parent
    /\ RelReturn(t) /\ relby' = relby
    /\ UNCHANGED <<tree_list, tree_lock, own, l_pos, l_max, l_count, l_tab,
                   l_out, nops>>
    /\ UNCHANGED <<l_p, l_arg>>
    /\ events' = [events EXCEPT ![l_obj[t]] = @ \o DestroyTail]
    /\ VarUnlock(t, l_obj[t])
    /\ UNCHANGED <<pf_destructor, lastfn>>
    /\ UNCHANGED <<l_stack, luavars>>

\* vlc_object_destroy(obj), second part: the variables, the lock and the
\* condition are destroyed and the block is freed; then the release of the
\* parent (or the return)
RelDestroy(t) ==
    /\ Running /\ pc[t] = "rel_destroy"
    /\ LET o == l_obj[t] IN
       /\ Check(alive[o], "double_free")
       /\ alive' = [alive EXCEPT ![o] = FALSE]
       /\ ndestroy' = [ndestroy EXCEPT ![o] = @ + 1]
       /\ cmds' = [cmds EXCEPT ![o] = {}]
       /\ refs' = refs
       /\ parent' = parent
    /\ IF l_parent[t] # NULL
       THEN /\ l_obj' = [l_obj EXCEPT ![t] = l_parent[t]]
            /\ pc' = [pc EXCEPT ![t] = "rel_load"]
            /\ relby' = [relby EXCEPT ![l_parent[t]] = @ \cup {t}]
            /\ UNCHANGED <<op, l_refs, l_parent, l_ret>>
       ELSE RelReturn(t) /\ relby' = relby
    /\ UNCHANGED <<tree_list, tree_lock, own, l_pos, l_max, l_count, l_tab,
                   l_out, nops>>
    /\ UNCHANGED <<l_p, l_arg>>
    /\ events' = [events EXCEPT ![l_obj[t]] = @ \o DestroyTail]
    /\ VarUnlock(t, l_obj[t])
    /\ UNCHANGED <<pf_destructor, lastfn>>
    /\ UNCHANGED <<l_stack, luavars>>

\* ---------------------------------------------------- vlc_list_children
\* the call, up to the acquisition of the lock
ListChildren(t, o, max) ==
    /\ StartOp(t, "list")
    /\ own[t][o] > 0
    /\ tree_lock = NULL
    /\ tree_lock' = t
    /\ l_obj' = [l_obj EXCEPT ![t] = o]
    /\ l_max' = [l_max EXCEPT ![t] = max]
    /\ l_pos' = [l_pos EXCEPT ![t] = 1]
    /\ l_count' = [l_count EXCEPT ![t] = 0]
    /\ l_tab' = [l_tab EXCEPT ![t] = <<>>]
    /\ pc' = [pc EXCEPT ![t] = "lc_iter"]
    /\ UNCHANGED <<refs, parent, alive, ndestroy, cmds, tree_list, own,
                   l_refs, l_parent, l_ret, l_out, failed>>
    /\ UNCHANGED <<l_p, l_arg, relby>>
    /\ UNCHANGED storevars
    /\ UNCHANGED <<l_stack, luavars>>

\* faulty variant: only the children stored in the table are counted
LcIter_CountStored(t) ==
    /\ Running /\ pc[t] = "lc_iter"
    /\ l_pos[t] <= Len(tree_list)
    /\ LET m == tree_list[l_pos[t]] IN
       IF parent[m] = l_obj[t]
       THEN IF l_count[t] < l_max[t]
            THEN /\ refs' = [refs EXCEPT ![m] = FetchAdd(@)]
                 /\ Check(alive[m] /\ UGt(refs[m], 0), "hold_refs")
                 /\ l_tab' = [l_tab EXCEPT ![t] = Append(@, m)]
                 /\ l_count' = [l_count EXCEPT ![t] = @ + 1]
            ELSE UNCHANGED <<refs, failed, l_tab, l_count>>
       ELSE UNCHANGED <<refs, failed, l_tab, l_count>>
    /\ l_pos' = [l_pos EXCEPT ![t] = @ + 1]
    /\ UNCHANGED <<parent, alive, ndestroy, cmds, tree_list, tree_lock, own,
                   op, pc, l_obj, l_refs, l_parent, l_max, l_ret, l_out, nops>>
    /\ UNCHANGED <<l_p, l_arg, relby>>
    /\ UNCHANGED storevars
    /\ UNCHANGED <<l_stack, luavars>>

\* one iteration of vlc_children_foreach
LcIter(t) ==
    /\ Running /\ pc[t] = "lc_iter"
    /\ l_pos[t] <= Len(tree_list)
    /\ LET m == tree_list[l_pos[t]] IN
       IF parent[m] = l_obj[t]
       THEN /\ l_count' = [l_count EXCEPT ![t] = @ + 1]
            /\ IF l_count[t] < l_max[t]
               THEN /\ refs' = [refs EXCEPT ![m] = FetchAdd(@)]
                    /\ Check(alive[m] /\ UGt(refs[m], 0), "hold_refs")
                    /\ l_tab' = [l_tab EXCEPT ![t] = Append(@, m)]
               ELSE UNCHANGED <<refs, failed, l_tab>>
       ELSE UNCHANGED <<refs, failed, l_tab, l_count>>
    /\ l_pos' = [l_pos EXCEPT ![t] = @ + 1]
    /\ UNCHANGED <<parent, alive, ndestroy, cmds, tree_list, tree_lock, own,
                   op, pc, l_obj, l_refs, l_parent, l_max, l_ret, l_out, nops>>
    /\ UNCHANGED <<l_p, l_arg, relby>>
    /\ UNCHANGED storevars
    /\ UNCHANGED <<l_stack, luavars>>

\* number of times m occurs in the table s
Occurs(s, m) == Cardinality({i \in 1..Len(s) : s[i] = m})

\* end of the loop: unlock and return count; the caller now owns the table
LcUnlock(t) ==
    /\ Running /\ pc[t] = "lc_iter"
    /\ l_pos[t] > Len(tree_list)
    /\ tree_lock' = NULL
    /\ own' = [own EXCEPT ![t] = [m \in Objs |-> @[m] + Occurs(l_tab[t], m)]]
    /\ l_obj' = [l_obj EXCEPT ![t] = NULL]
    /\ l_max' = [l_max EXCEPT ![t] = 0]
    /\ l_pos' = [l_pos EXCEPT ![t] = 0]
    /\ l_count' = [l_count EXCEPT ![t] = 0]
    /\ l_tab' = [l_tab EXCEPT ![t] = <<>>]
    /\ pc' = [pc EXCEPT ![t] = "idle"]
    /\ op' = [op EXCEPT ![t] = "none"]
    /\ UNCHANGED <<refs, parent, alive, ndestroy, cmds, tree_list, l_refs,
                   l_parent, l_ret, l_out, failed, nops>>
    /\ UNCHANGED <<l_p, l_arg, relby>>
    /\ UNCHANGED storevars
    /\ UNCHANGED <<l_stack, luavars>>

\* ---------------------------------------------------------- TreeCommand
\* the "tree" callback of object r, up to the acquisition of the lock
TreeCommand(t, r) ==
    /\ StartOp(t, "tree")
    /\ own[t][r] > 0
    /\ "tree" \in cmds[r]
    /\ tree_lock = NULL
    /\ tree_lock' = t
    /\ l_obj' = [l_obj EXCEPT ![t] = r]
    /\ pc' = [pc EXCEPT ![t] = "tc_dump"]
    /\ UNCHANGED <<refs, parent, alive, ndestroy, cmds, tree_list, own,
                   l_refs, l_parent, l_pos, l_max, l_count, l_tab, l_ret,
                   l_out, failed>>
    /\ UNCHANGED <<l_p, l_arg, relby>>
    /\ UNCHANGED storevars
    /\ UNCHANGED <<l_stack, luavars>>

\* DumpStructure(obj, 0)
TcDump(t) ==
    /\ Running /\ pc[t] = "tc_dump"
    /\ l_out' = [l_out EXCEPT ![t] = DumpStructure(l_obj[t], 0)]
    /\ pc' = [pc EXCEPT ![t] = "tc_unlock"]
    /\ UNCHANGED <<refs, parent, alive, ndestroy, cmds, tree_list, tree_lock,
                   own, op, l_obj, l_refs, l_parent, l_pos, l_max, l_count,
                   l_tab, l_ret, failed, nops>>
    /\ UNCHANGED <<l_p, l_arg, relby>>
    /\ UNCHANGED storevars
    /\ UNCHANGED <<l_stack, luavars>>

\* unlock and return VLC_SUCCESS
TcUnlock(t) ==
    /\ Running /\ pc[t] = "tc_unlock"
    /\ tree_lock' = NULL
    /\ l_out' = [l_out EXCEPT ![t] = <<>>]
    /\ l_obj' = [l_obj EXCEPT ![t] = NULL]
    /\ pc' = [pc EXCEPT ![t] = "idle"]
    /\ op' = [op EXCEPT ![t] = "none"]
    /\ UNCHANGED <<refs, parent, alive, ndestroy, cmds, tree_list, own,
                   l_refs, l_parent, l_pos, l_max, l_count, l_tab, l_ret,
                   failed, nops>>
    /\ UNCHANGED <<l_p, l_arg, relby>>
    /\ UNCHANGED storevars
    /\ UNCHANGED <<l_stack, luavars>>

\* ---------------------------------------------------------- VarsCommand
\* faulty variant: the command takes no reference on the object
VarsNoArg_NoHold(t, r) ==
    /\ StartOp(t, "vars")
    /\ own[t][r] > 0
    /\ "vars" \in cmds[r]
    /\ refs' = refs /\ failed' = failed
    /\ l_obj' = [l_obj EXCEPT ![t] = r]
    /\ pc' = [pc EXCEPT ![t] = "vc_dump"]
    /\ UNCHANGED <<parent, alive, ndestroy, cmds, tree_list, tree_lock, own,
                   l_refs, l_parent, l_pos, l_max, l_count, l_tab, l_ret,
                   l_out>>
    /\ UNCHANGED <<l_p, l_arg, relby>>
    /\ UNCHANGED storevars
    /\ UNCHANGED <<l_stack, luavars>>

\* the "vars" callback of object r with no pointer in the argument
VarsNoArg(t, r) ==
    /\ StartOp(t, "vars")
    /\ own[t][r] > 0
    /\ "vars" \in cmds[r]
    /\ refs' = [refs EXCEPT ![r] = FetchAdd(@)]
    /\ Check(alive[r] /\ UGt(refs[r], 0), "hold_refs")
    /\ l_obj' = [l_obj EXCEPT ![t] = r]
    /\ pc' = [pc EXCEPT ![t] = "vc_dump"]
    /\ UNCHANGED <<parent, alive, ndestroy, cmds, tree_list, tree_lock, own,
                   l_refs, l_parent, l_pos, l_max, l_count, l_tab, l_ret,
                   l_out>>
    /\ UNCHANGED <<l_p, l_arg, relby>>
    /\ UNCHANGED storevars
    /\ UNCHANGED <<l_stack, luavars>>

\* the "vars" callback of object r with pointer p: lock and ObjectExists
VarsLookup(t, r, p) ==
    /\ StartOp(t, "vars")
    /\ own[t][r] > 0
    /\ "vars" \in cmds[r]
    /\ tree_lock = NULL
    /\ tree_lock' = t
    /\ LET f == ObjectExists(r, p) IN
       /\ l_p' = [l_p EXCEPT ![t] = f]
       /\ IF f # NULL
          THEN /\ refs' = [refs EXCEPT ![f] = FetchAdd(@)]
               /\ Check(alive[f] /\ UGt(refs[f], 0), "hold_refs")
          ELSE UNCHANGED <<refs, failed>>
    /\ pc' = [pc EXCEPT ![t] = "vc_unlock"]
    /\ UNCHANGED <<parent, alive, ndestroy, cmds, tree_list, own, l_refs,
                   l_parent, l_pos, l_max, l_count, l_tab, l_ret, l_out>>
    /\ l_obj' = [l_obj EXCEPT ![t] = r]
    /\ l_arg' = [l_arg EXCEPT ![t] = p]
    /\ UNCHANGED relby
    /\ UNCHANGED storevars
    /\ UNCHANGED <<l_stack, luavars>>

\* faulty variant: the structural lock is kept for the dump of the variables
VcUnlock_KeepLock(t) ==
    /\ Running /\ pc[t] = "vc_unlock"
    /\ tree_lock' = IF l_p[t] = NULL THEN NULL ELSE tree_lock
    /\ IF l_p[t] = NULL
       THEN /\ l_ret' = [l_ret EXCEPT ![t] = VLC_ENOOBJ]
            /\ pc' = [pc EXCEPT ![t] = "vc_ret"]
            /\ l_obj' = l_obj
       ELSE /\ l_ret' = l_ret
            /\ pc' = [pc EXCEPT ![t] = "vc_dump"]
            /\ l_obj' = [l_obj EXCEPT ![t] = l_p[t]]
    /\ UNCHANGED <<refs, parent, alive, ndestroy, cmds, tree_list, own, op,
                   l_refs, l_parent, l_pos, l_max, l_count, l_tab,
                   l_out, failed, nops>>
    /\ UNCHANGED <<l_p, l_arg, relby>>
    /\ UNCHANGED storevars
    /\ UNCHANGED <<l_stack, luavars>>

\* unlock, and the test of the result
VcUnlock(t) ==
    /\ Running /\ pc[t] = "vc_unlock"
    /\ tree_lock' = NULL
    /\ IF l_p[t] = NULL
       THEN /\ l_ret' = [l_ret EXCEPT ![t] = VLC_ENOOBJ]
            /\ pc' = [pc EXCEPT ![t] = "vc_ret"]
            /\ l_obj' = l_obj
       ELSE /\ l_ret' = l_ret
            /\ pc' = [pc EXCEPT ![t] = "vc_dump"]
            /\ l_obj' = [l_obj EXCEPT ![t] = l_p[t]]
    /\ UNCHANGED <<refs, parent, alive, ndestroy, cmds, tree_list, own, op,
                   l_refs, l_parent, l_pos, l_max, l_count, l_tab,
                   l_out, failed, nops>>
    /\ UNCHANGED <<l_p, l_arg, relby>>
    /\ UNCHANGED storevars
    /\ UNCHANGED <<l_stack, luavars>>

\* the printf, and DumpVariables(obj) takes the variable lock
VcPrint(t) ==
    /\ Running /\ pc[t] = "vc_dump"
    /\ VarLock(t, l_obj[t])
    /\ Check(alive[l_obj[t]], "use_after_free")
    /\ pc' = [pc EXCEPT ![t] = "vc_vars"]
    /\ UNCHANGED <<refs, parent, alive, ndestroy, cmds, tree_list, tree_lock,
                   own, op, l_obj, l_refs, l_parent, l_pos, l_max, l_count,
                   l_tab, l_ret, l_out, nops>>
    /\ UNCHANGED <<l_p, l_arg, relby, pf_destructor, events, lastfn>>
    /\ UNCHANGED <<l_stack, luavars>>

\* faulty variant: the command returns without releasing the object
VcDump_NoRelease(t) ==
    /\ Running /\ pc[t] = "vc_vars"
    /\ Check(alive[l_obj[t]], "use_after_free")
    /\ pc' = [pc EXCEPT ![t] = "vc_ret"]
    /\ UNCHANGED <<refs, parent, alive, ndestroy, cmds, tree_list, tree_lock,
                   own, op, l_obj, l_refs, l_parent, l_pos, l_max, l_count,
                   l_tab, l_ret, l_out, nops>>
    /\ relby' = relby
    /\ UNCHANGED <<l_p, l_arg>>
    /\ VarUnlock(t, l_obj[t])
    /\ UNCHANGED <<pf_destructor, events, lastfn>>
    /\ UNCHANGED <<l_stack, luavars>>

\* DumpVariables(obj) prints and unlocks; next is vlc_object_release(obj)
VcDump(t) ==
    /\ Running /\ pc[t] = "vc_vars"
    /\ Check(alive[l_obj[t]], "use_after_free")
    /\ pc' = [pc EXCEPT ![t] = "rel_load"]
    /\ UNCHANGED <<refs, parent, alive, ndestroy, cmds, tree_list, tree_lock,
                   own, op, l_obj, l_refs, l_parent, l_pos, l_max, l_count,
                   l_tab, l_ret, l_out, nops>>
    /\ relby' = [relby EXCEPT ![l_obj[t]] = @ \cup {t}]
    /\ UNCHANGED <<l_p, l_arg>>
    /\ VarUnlock(t, l_obj[t])
    /\ UNCHANGED <<pf_destructor, events, lastfn>>
    /\ UNCHANGED <<l_stack, luavars>>

\* the command returns l_ret to the variable layer
VcRet(t) ==
    /\ Running /\ pc[t] = "vc_ret"
    /\ l_ret' = [l_ret EXCEPT ![t] = VLC_SUCCESS]
    /\ l_obj' = [l_obj EXCEPT ![t] = NULL]
    /\ pc' = [pc EXCEPT ![t] = "idle"]
    /\ op' = [op EXCEPT ![t] = "none"]
    /\ UNCHANGED <<refs, parent, alive, ndestroy, cmds, tree_list, tree_lock,
                   own, l_refs, l_parent, l_pos, l_max, l_count, l_tab, l_out,
                   failed, nops>>
    /\ l_p' = [l_p EXCEPT ![t] = NULL]
    /\ l_arg' = [l_arg EXCEPT ![t] = NOARG]
    /\ UNCHANGED relby
    /\ UNCHANGED storevars
    /\ UNCHANGED <<l_stack, luavars>>

\* ------------------------------------------------------------------ Next
Next ==
    \/ \E t \in Threads, o \in Objs, u \in Threads : Hold(t, o, u)
    \/ \E t \in Threads, p \in {NULL} \cup Objs : CreateFail(t, p)
    \/ \E t \in Threads, a \in Objs : CreateRoot(t, a)
    \/ \E t \in Threads : CreateVars(t)
    \/ \E t \in Threads, p \in Objs, a \in Objs : CreateChild(t, p, a)
    \/ \E t \in Threads : CreateAttach(t)
    \/ \E t \in Threads, o \in Objs : Release(t, o)
    \/ \E t \in Threads : RelLoad(t)
    \/ \E t \in Threads : RelCas(t)
    \/ \E t \in Threads : RelRoot(t)
    \/ \E t \in Threads : RelRootChk(t)
    \/ \E t \in Threads : RelSlow(t)
    \/ \E t \in Threads : RelUnlock(t)
    \/ \E t \in Threads : RelChk(t)
    \/ \E t \in Threads : DestroyHook(t)
    \/ \E t \in Threads : RelDestroy(t)
    \/ \E t \in Threads, o \in Objs, max \in 0..MaxTab : ListChildren(t, o, max)
    \/ \E t \in Threads : LcIter(t)
    \/ \E t \in Threads : LcUnlock(t)
    \/ \E t \in Threads, r \in Objs : TreeCommand(t, r)
    \/ \E t \in Threads : TcDump(t)
    \/ \E t \in Threads : TcUnlock(t)
    \/ \E t \in Threads, r \in Objs : VarsNoArg(t, r)
    \/ \E t \in Threads, r \in Objs, p \in {NULL} \cup Objs : VarsLookup(t, r, p)
    \/ \E t \in Threads : VcUnlock(t)
    \/ \E t \in Threads : VcPrint(t)
    \/ \E t \in Threads : VcDump(t)
    \/ \E t \in Threads : VcRet(t)

Spec == Init /\ [][Next]_vars

\* the steps of thread t inside a call it has started
Step(t) ==
    \/ CreateVars(t)
    \/ CreateAttach(t)
    \/ RelLoad(t)
    \/ RelCas(t)
    \/ RelRoot(t)
    \/ RelRootChk(t)
    \/ RelSlow(t)
    \/ RelUnlock(t)
    \/ RelChk(t)
    \/ DestroyHook(t)
    \/ RelDestroy(t)
    \/ LcIter(t)
    \/ LcUnlock(t)
    \/ TcDump(t)
    \/ TcUnlock(t)
    \/ VcUnlock(t)
    \/ VcPrint(t)
    \/ VcDump(t)
    \/ VcRet(t)

\* every thread that can take a step of its call eventually takes one; the
\* clients are free to start calls or not
SpecFair == Spec /\ \A t \in Threads : WF_vars(Step(t))

\* the life cycle alone, with clients that set destructors
NextLife ==
    \/ \E t \in Threads, o \in Objs, u \in Threads : Hold(t, o, u)
    \/ \E t \in Threads, o \in Objs, fn \in Hooks : SetDestructor(t, o, fn)
    \/ \E t \in Threads, a \in Objs : CreateRoot(t, a)
    \/ \E t \in Threads : CreateVars(t)
    \/ \E t \in Threads, p \in Objs, a \in Objs : CreateChild(t, p, a)
    \/ \E t \in Threads : CreateAttach(t)
    \/ \E t \in Threads, o \in Objs : Release(t, o)
    \/ \E t \in Threads : RelLoad(t)
    \/ \E t \in Threads : RelCas(t)
    \/ \E t \in Threads : RelRoot(t)
    \/ \E t \in Threads : RelRootChk(t)
    \/ \E t \in Threads : RelSlow(t)
    \/ \E t \in Threads : RelUnlock(t)
    \/ \E t \in Threads : RelChk(t)
    \/ \E t \in Threads : DestroyHook(t)
    \/ \E t \in Threads : RelDestroy(t)

SpecLife == Init /\ [][NextLife]_vars

\* a chain of n objects, 1 <- 2 <- ... <- n, as n calls of vlc_custom_create
\* leave it once every object but the first and the last was released by
\* its creator; thread 1 owns a reference on the first and on the last
DeepSizes ==
    (1..DeepExtra) \cup ((DumpMaxLevel - 1)..(DumpMaxLevel + 1 + DeepExtra))

InitDeep ==
    \E n \in DeepSizes :
        LET D == 1..n IN
        /\ refs = [o \in D |-> IF o = 1 /\ n > 1 THEN 2 ELSE 1]
        /\ parent = [o \in D |-> o - 1]
        /\ alive = [o \in D |-> TRUE]
        /\ ndestroy = [o \in D |-> 0]
        /\ cmds = [o \in D |-> IF o = 1 THEN {"tree", "vars"} ELSE {}]
        /\ tree_list = [i \in 1..(n - 1) |-> i + 1]
        /\ tree_lock = NULL
        /\ own = [t \in Threads |->
                    [o \in D |-> IF t = 1 /\ o \in {1, n} THEN 1 ELSE 0]]
        /\ op = [t \in Threads |-> "none"]
        /\ pc = [t \in Threads |-> "idle"]
        /\ l_obj = [t \in Threads |-> NULL]
        /\ l_refs = [t \in Threads |-> 0]
        /\ l_parent = [t \in Threads |-> NULL]
        /\ l_pos = [t \in Threads |-> 0]
        /\ l_max = [t \in Threads |-> 0]
        /\ l_count = [t \in Threads |-> 0]
        /\ l_tab = [t \in Threads |-> <<>>]
        /\ l_p = [t \in Threads |-> NULL]
        /\ l_arg = [t \in Threads |-> NOARG]
        /\ l_ret = [t \in Threads |-> VLC_SUCCESS]
        /\ l_out = [t \in Threads |-> <<>>]
        /\ l_stack = [t \in Threads |-> <<>>]
        /\ failed = "none"
        /\ nops = 0
        /\ relby = [o \in D |-> {}]
        /\ pf_destructor = [o \in D |-> NULL]
        /\ var_lock = [o \in D |-> NULL]
        /\ events = [o \in D |-> IF o = 1 THEN RootVarCalls ELSE <<>>]
        /\ lastfn = [o \in D |-> NULL]
        /\ mt_exists = FALSE
        /\ mt_gc = "nil"
        /\ wrappers = <<>>
        /\ released = <<>>

\* DumpStructure with its recursion unfolded: a frame is one open call,
\* pos is the cursor of its vlc_children_foreach (0 before PrintObject)
Frame(o, level, pos) == [obj |-> o, level |-> level, pos |-> pos]

Top(t) == l_stack[t][Len(l_stack[t])]

\* the innermost call returns; the outermost one returns to TreeCommand
DsReturn(t) ==
    /\ l_stack' = [l_stack EXCEPT ![t] = SubSeq(@, 1, Len(@) - 1)]
    /\ pc' = [pc EXCEPT ![t] = IF Len(l_stack[t]) = 1 THEN "tc_unlock"
                                ELSE "tc_dump"]

\* TreeCommand calls DumpStructure(obj, 0)
DsCall(t) ==
    /\ Running /\ pc[t] = "tc_dump"
    /\ l_stack[t] = <<>> /\ l_out[t] = <<>>
    /\ l_stack' = [l_stack EXCEPT ![t] = <<Frame(l_obj[t], 0, 0)>>]
    /\ UNCHANGED <<refs, parent, alive, ndestroy, cmds, tree_list, tree_lock,
                   own, op, pc, l_obj, l_refs, l_parent, l_pos, l_max,
                   l_count, l_tab, l_ret, l_out, failed, nops>>
    /\ UNCHANGED <<l_p, l_arg, relby>>
    /\ UNCHANGED storevars
    /\ UNCHANGED luavars

\* PrintObject(obj), and the test of the level
DsEnter(t) ==
    /\ Running /\ pc[t] = "tc_dump"
    /\ l_stack[t] # <<>> /\ Top(t).pos = 0
    /\ l_out' = [l_out EXCEPT ![t] = Append(@, PrintObject(Top(t).obj))]
    /\ IF Top(t).level > DumpMaxLevel
       THEN DsReturn(t)
       ELSE /\ l_stack' = [l_stack EXCEPT ![t][Len(l_stack[t])].pos = 1]
            /\ pc' = pc
    /\ UNCHANGED <<refs, parent, alive, ndestroy, cmds, tree_list, tree_lock,
                   own, op, l_obj, l_refs, l_parent, l_pos, l_max,
                   l_count, l_tab, l_ret, failed, nops>>
    /\ UNCHANGED <<l_p, l_arg, relby>>
    /\ UNCHANGED storevars
    /\ UNCHANGED luavars

\* vlc_children_foreach: the walk to the next child and the call on it, or
\* the return when no child is left
DsIter(t) ==
    /\ Running /\ pc[t] = "tc_dump"
    /\ l_stack[t] # <<>> /\ Top(t).pos > 0
    /\ LET rest == {k \in Top(t).pos..Len(tree_list) :
                        parent[tree_list[k]] = Top(t).obj}
       IN  IF rest = {}
           THEN DsReturn(t)
           ELSE LET k == CHOOSE i \in rest : \A j \in rest : i <= j IN
                /\ l_stack' = [l_stack EXCEPT ![t] =
                       Append([@ EXCEPT ![Len(@)].pos = k + 1],
                              Frame(tree_list[k], Top(t).level + 1, 0))]
                /\ pc' = pc
    /\ UNCHANGED <<refs, parent, alive, ndestroy, cmds, tree_list, tree_lock,
                   own, op, l_obj, l_refs, l_parent, l_pos, l_max,
                   l_count, l_tab, l_ret, l_out, failed, nops>>
    /\ UNCHANGED <<l_p, l_arg, relby>>
    /\ UNCHANGED storevars
    /\ UNCHANGED luavars

\* the tree command on such a chain
NextDeep ==
    \/ \E t \in Threads, r \in DOMAIN parent : TreeCommand(t, r)
    \/ \E t \in Threads : DsCall(t)
    \/ \E t \in Threads : DsEnter(t)
    \/ \E t \in Threads : DsIter(t)
    \/ \E t \in Threads : TcUnlock(t)

SpecDeep == InitDeep /\ [][NextDeep]_vars

\* ------------------------------------------ modules/lua/libs/objects.c
\* vlclua_push_vlc_object(L, p_obj, release): a new userdata, and the shared
\* "vlc_object" metatable, whose __gc is set only by the call that creates it
vlclua_push_vlc_object(kind, release) ==
    /\ Len(wrappers) < MaxWrappers
    /\ wrappers' = Append(wrappers,
                          [kind |-> kind, release |-> release,
                           collected |-> FALSE])
    /\ released' = Append(released, <<>>)
    /\ mt_exists' = TRUE
    /\ mt_gc' = IF ~mt_exists /\ release # "nil" THEN release ELSE mt_gc
    /\ UNCHANGED corevars

vlclua_get_libvlc == vlclua_push_vlc_object("libvlc", "nil")

vlclua_get_playlist == vlclua_push_vlc_object("playlist", "nil")

\* has: vlclua_get_input_internal returned an input (else nil is pushed)
vlclua_get_input(has) ==
    IF has THEN vlclua_push_vlc_object("input", "vlclua_input_release")
    ELSE UNCHANGED vars

vlclua_get_vout(has) ==
    IF has THEN vlclua_push_vlc_object("vout", "vlclua_vout_release")
    ELSE UNCHANGED vars

vlclua_get_aout(has) ==
    IF has THEN vlclua_push_vlc_object("aout", "vlclua_aout_release")
    ELSE UNCHANGED vars

\* the Lua collector finalises userdata i: it calls the __gc of its metatable
LuaCollect(i) ==
    /\ i \in 1..Len(wrappers)
    /\ ~wrappers[i].collected
    /\ wrappers' = [wrappers EXCEPT ![i].collected = TRUE]
    /\ released' = [released EXCEPT ![i] =
                        IF mt_gc # "nil" THEN Append(@, mt_gc) ELSE @]
    /\ UNCHANGED <<mt_exists, mt_gc>>
    /\ UNCHANGED corevars

NextLua ==
    \/ vlclua_get_libvlc
    \/ vlclua_get_playlist
    \/ \E has \in BOOLEAN : vlclua_get_input(has)
    \/ \E has \in BOOLEAN : vlclua_get_vout(has)
    \/ \E has \in BOOLEAN : vlclua_get_aout(has)
    \/ \E i \in 1..MaxWrappers : LuaCollect(i)

SpecLua == Init /\ [][NextLua]_vars

\* C7: every collected wrapper has triggered exactly the release callback
\* supplied at its creation, once, and none when no callback was supplied
C7_GcCallsSuppliedRelease ==
    \A i \in 1..Len(wrappers) :
        wrappers[i].collected =>
            released[i] = IF wrappers[i].release = "nil" THEN <<>>
                          ELSE <<wrappers[i].release>>

\* ------------------------------------------------ reference bookkeeping
RECURSIVE SumOver(_, _)
SumOver(S, f) ==
    IF S = {} THEN 0
    ELSE LET x == CHOOSE y \in S : TRUE IN f[x] + SumOver(S \ {x}, f)

\* positions of vlc_object_release before its decrement
BeforeDecrement == {"rel_load", "rel_cas", "rel_root", "rel_slow"}
\* positions of vlc_object_release after a decrement that observed 1
AfterLast == {"rel_root_chk", "rel_unlock", "rel_chk", "rel_hook", "rel_destroy"}

\* references on o that thread t carries inside its running operation
Carried(t, o) ==
    (IF pc[t] \in BeforeDecrement /\ l_obj[t] = o THEN 1 ELSE 0)
  + (IF pc[t] = "vc_unlock" /\ l_p[t] = o THEN 1 ELSE 0)
  + (IF pc[t] \in {"vc_dump", "vc_vars"} /\ l_obj[t] = o THEN 1 ELSE 0)
  + (IF pc[t] \in {"cr_attach", "cr_vars"} /\ l_obj[t] = o THEN 1 ELSE 0)
  + (IF pc[t] = "lc_iter" THEN Occurs(l_tab[t], o) ELSE 0)

\* objects created with parent o whose block is still allocated
ChildRefs(o) == Cardinality({c \in Objs : alive[c] /\ parent[c] = o})

\* all references on o that have not been released yet
Outstanding(o) ==
    SumOver(Threads, [t \in Threads |-> own[t][o] + Carried(t, o)])
  + ChildRefs(o)

\* the threads that removed the last reference on o and are destroying it
Destroyers(o) ==
    {t \in Threads : pc[t] \in AfterLast /\ l_obj[t] = o /\ l_refs[t] = 1}

Quiescent == \A t \in Threads : pc[t] = "idle"

\* sanity: the counter equals the outstanding references
RefsAccounting ==
    \A o \in Objs : alive[o] => refs[o] = Outstanding(o)

\* ---------------------------------------------------------------- claims
\* C1: under concurrent hold/release on an object created with count 1,
\* vlc_object_destroy runs on it at most once, never while a reference is
\* outstanding, and an object with no outstanding reference is either freed
\* or in the hands of the single release call that removed the last one.
C1_DestroyedExactlyOnce ==
    /\ failed \notin {"double_free", "use_after_free"}
    /\ \A o \in Objs :
        /\ ndestroy[o] <= 1
        /\ alive[o] => ndestroy[o] = 0
        /\ Outstanding(o) > 0 => alive[o] /\ Destroyers(o) = {}
        /\ (alive[o] /\ Outstanding(o) = 0) => Cardinality(Destroyers(o)) = 1
        /\ (Quiescent /\ alive[o]) => Outstanding(o) > 0

\* an object released by every thread has been destroyed
C1_Witness ==
    \E o \in Objs : ~alive[o] /\ ndestroy[o] = 1 /\ relby[o] = Threads

\* C2: the step that destroys an object c with a parent p is made by the
\* release call that observed the last reference, after it dropped the
\* structural lock, and it starts exactly one vlc_object_release(p) without
\* touching any count; a release call on c that returns without destroying
\* c starts no release of p; and every started release lowers the count of
\* its object by exactly one.
C2_Step ==
    /\ \A c \in Objs :
         (alive[c] /\ parent[c] # NULL) =>
            LET p == parent[c]
                R == {t \in Threads : pc[t] \in BeforeDecrement /\ l_obj[t] = p}
                Rn == {t \in Threads : pc'[t] \in BeforeDecrement /\ l_obj'[t] = p}
            IN  /\ ~alive'[c] =>
                    \E t \in Threads :
                        /\ pc[t] = "rel_destroy" /\ l_obj[t] = c
                        /\ l_refs[t] = 1
                        /\ tree_lock # t /\ tree_lock' # t
                        /\ Rn = R \cup {t} /\ t \notin R
                        /\ refs' = refs
                /\ alive'[c] =>
                    \A t \in Threads :
                        (pc[t] \in BeforeDecrement \cup AfterLast /\ l_obj[t] = c)
                            => ~(t \in Rn /\ t \notin R)
    /\ \A t \in Threads :
         (pc[t] \in BeforeDecrement /\ pc'[t] \notin BeforeDecrement) =>
            /\ refs'[l_obj[t]] = refs[l_obj[t]] - 1
            /\ \A o \in Objs \ {l_obj[t]} : refs'[o] = refs[o]

C2_ParentReleasedOnce == [][C2_Step]_vars

\* a chain root -> mid -> leaf after leaf and mid were destroyed: the root
\* is left with the single reference of its owner
C2_Witness ==
    \E r \in Objs, m \in Objs, l \in Objs :
        /\ Quiescent
        /\ alive[r] /\ parent[r] = NULL /\ refs[r] = 1
        /\ ~alive[m] /\ ndestroy[m] = 1 /\ parent[m] = r
        /\ ~alive[l] /\ ndestroy[l] = 1 /\ parent[l] = m

\* C3: an allocated object created with a parent keeps that parent allocated
\* with a count of at least 1, and neither "no children can be left"
\* assertion fails.
C3_ChildKeepsParent ==
    /\ failed \notin {"children_left", "root_children"}
    /\ \A c \in Objs :
         (alive[c] /\ parent[c] # NULL) =>
            /\ alive[parent[c]]
            /\ ndestroy[parent[c]] = 0
            /\ UGt(refs[parent[c]], 0)
            /\ Destroyers(parent[c]) = {}

\* the assertion has passed for an object that used to have a child, while
\* another object still has a live child
C3_Witness ==
    \E t \in Threads, c \in Objs :
        /\ pc[t] = "rel_destroy" /\ parent[l_obj[t]] # NULL
        /\ ~alive[c] /\ ndestroy[c] = 1 /\ parent[c] = l_obj[t]
        /\ ChildRefs(parent[l_obj[t]]) = 1

\* the members of the collection
Members == {tree_list[i] : i \in 1..Len(tree_list)}

\* number of parent links from o up to r, or -1 when r is not an ancestor
RECURSIVE Dist(_, _)
Dist(o, r) ==
    IF o = r THEN 0
    ELSE IF parent[o] = NULL THEN -1
    ELSE LET d == Dist(parent[o], r) IN IF d < 0 THEN -1 ELSE d + 1

\* p is r itself or a member that reaches r through parent links
Reach(r, p) == p = r \/ (p \in Members /\ Dist(p, r) > 0)

\* C4: every object vlc_list_children has stored in its table was held at
\* a count of at least 1, and every object a caller holds a reference on,
\* from the table or otherwise, is allocated and not being destroyed.
C4_ListedChildrenUndestroyed ==
    /\ failed # "hold_refs"
    /\ \A t \in Threads :
         /\ pc[t] = "lc_iter" =>
              \A i \in 1..Len(l_tab[t]) :
                  LET m == l_tab[t][i] IN
                  /\ alive[m] /\ ndestroy[m] = 0
                  /\ UGt(refs[m], 0)
                  /\ Destroyers(m) = {}
                  /\ m \in Members
         /\ \A m \in Objs :
              own[t][m] > 0 =>
                  alive[m] /\ UGt(refs[m], 0) /\ Destroyers(m) = {}

\* vlc_list_children has just held a child whose owner, having observed a
\* count of 1, waits for the lock on the slow path of its release
C4_Witness ==
    \E t \in Threads, u \in Threads :
        /\ pc[t] = "lc_iter" /\ Len(l_tab[t]) = 1
        /\ pc[u] = "rel_slow" /\ l_obj[u] = l_tab[t][1] /\ l_refs[u] = 1

\* C5: the critical section that runs ObjectExists(root, ptr) holds the lock
\* and yields ptr, with the count of ptr raised by exactly one, when ptr is
\* root or a member that reaches root through parent links; otherwise it
\* yields NULL and changes no count.
C5_Step ==
    \A t \in Threads :
        (pc[t] = "idle" /\ pc'[t] = "vc_unlock") =>
            LET r == l_obj'[t]
                p == l_arg'[t]
            IN  /\ tree_lock' = t
                /\ tree_list' = tree_list
                /\ IF Reach(r, p)
                   THEN /\ l_p'[t] = p
                        /\ refs' = [refs EXCEPT ![p] = @ + 1]
                        /\ refs[p] >= 1
                   ELSE /\ l_p'[t] = NULL
                        /\ refs' = refs

C5_ObjectExists == [][C5_Step]_vars

\* the lookup has failed for the address of an object that its last release
\* has removed from the collection and not freed yet
C5_Witness ==
    \E t \in Threads, u \in Threads :
        /\ pc[t] = "vc_unlock" /\ l_p[t] = NULL
        /\ l_arg[t] \in Objs /\ alive[l_arg[t]]
        /\ pc[u] \in {"rel_chk", "rel_destroy"} /\ l_obj[u] = l_arg[t]

\* the lookup has found an object two levels below the root
C5_WitnessFound ==
    \E t \in Threads :
        /\ pc[t] = "vc_unlock" /\ l_p[t] # NULL
        /\ parent[l_p[t]] # NULL /\ parent[l_p[t]] # l_obj[t]

\* C6: an object on which a client owns a reference has a count of at least
\* 1; once the count of an allocated object is 0 no step changes it; and the
\* assertion of vlc_object_hold never fails.
C6_Step ==
    /\ failed' # "hold_refs"
    /\ \A o \in Objs :
        /\ (\E t \in Threads : own[t][o] > 0) => UGt(refs[o], 0)
        /\ (alive[o] /\ refs[o] = 0) => refs'[o] = 0

C6_ZeroIsTerminal == [][C6_Step]_vars

\* vlc_list_children walks the collection while an object whose count has
\* reached 0 is still allocated
C6_Witness ==
    \E t \in Threads, o \in Objs :
        /\ alive[o] /\ refs[o] = 0 /\ parent[o] # NULL
        /\ pc[t] = "lc_iter" /\ l_obj[t] = parent[o]

\* C8: a vars command whose pointer does not resolve returns VLC_ENOOBJ and
\* none of its steps changes a count or the collection; a vars command that
\* resolves its target (or is given no pointer) raises the count of the
\* target by exactly one before the dump, then calls vlc_object_release on
\* that same object, and returns VLC_SUCCESS only when that call returned.
C8_Step ==
    \A t \in Threads :
        /\ (pc[t] = "idle" /\ op'[t] = "vars") =>
              LET target == IF pc'[t] = "vc_dump" THEN l_obj'[t] ELSE l_p'[t]
              IN  /\ tree_list' = tree_list
                  /\ l_arg'[t] = NOARG => target = l_obj'[t]
                  /\ refs' = IF target = NULL THEN refs
                             ELSE [refs EXCEPT ![target] = @ + 1]
        /\ (pc[t] = "vc_unlock" /\ pc'[t] # "vc_unlock") =>
              /\ refs' = refs /\ tree_list' = tree_list
              /\ IF l_p[t] = NULL
                 THEN pc'[t] = "vc_ret" /\ l_ret'[t] = VLC_ENOOBJ
                 ELSE pc'[t] = "vc_dump" /\ l_obj'[t] = l_p[t]
        /\ (pc[t] \in {"vc_dump", "vc_vars"} /\ pc'[t] # pc[t]) =>
              /\ refs' = refs /\ tree_list' = tree_list
              /\ l_obj'[t] = l_obj[t]
              /\ pc'[t] = IF pc[t] = "vc_dump" THEN "vc_vars" ELSE "rel_load"
        /\ (pc[t] # "vc_ret" /\ pc[t] # "vc_unlock" /\ pc'[t] = "vc_ret") =>
              /\ op[t] = "vars" /\ l_ret'[t] = VLC_SUCCESS
              /\ pc[t] \in {"rel_cas", "rel_unlock", "rel_destroy"}
        /\ (pc[t] = "vc_ret" /\ pc'[t] # "vc_ret") =>
              /\ refs' = refs /\ tree_list' = tree_list /\ alive' = alive
              /\ pc'[t] = "idle"

C8_VarsCommand == [][C8_Step]_vars

\* one command is about to return VLC_ENOOBJ and another VLC_SUCCESS
C8_Witness ==
    \E t \in Threads, u \in Threads :
        /\ pc[t] = "vc_ret" /\ l_ret[t] = VLC_ENOOBJ
        /\ pc[u] = "vc_ret" /\ l_ret[u] = VLC_SUCCESS

\* the first n elements of s, or all of s
Take(s, n) == SubSeq(s, 1, IF n < Len(s) THEN n ELSE Len(s))

\* C9: when the loop of vlc_list_children has ended, with the lock still
\* held, count is the number of members whose parent is obj and the table
\* holds the first min(count, max) of them in collection order; every
\* iteration runs under the lock and raises the count of the child it
\* stores by exactly one, and of nothing else.
C9_Step ==
    \A t \in Threads :
        pc[t] = "lc_iter" =>
            /\ tree_lock = t
            /\ l_pos[t] > Len(tree_list) =>
                  /\ l_count[t] = Len(Children(l_obj[t]))
                  /\ l_tab[t] = Take(Children(l_obj[t]), l_max[t])
            /\ (pc'[t] = "lc_iter" /\ l_pos'[t] # l_pos[t]
                                  /\ l_tab'[t] # l_tab[t]) =>
                  /\ Len(l_tab'[t]) = Len(l_tab[t]) + 1
                  /\ LET m == l_tab'[t][Len(l_tab'[t])] IN
                     refs' = [refs EXCEPT ![m] = @ + 1]
            /\ (pc'[t] = "lc_iter" /\ l_pos'[t] # l_pos[t]
                                  /\ l_tab'[t] = l_tab[t]) => refs' = refs
            /\ pc'[t] # "lc_iter" => refs' = refs /\ tree_lock' = NULL

ListIndex(o) == CHOOSE k \in 1..Len(tree_list) : tree_list[k] = o

\* C10: when the tree command has produced its dump, with the lock held
\* since before the dump, the lines are exactly the dumped root and the
\* members that reach it through parent links, each once; the prefix of a
\* line has one connector per level between its object and the root; the
\* nearest earlier line of smaller depth is the line of the parent (so the
\* order is a pre-order walk); and siblings come in collection order.
C10_TreeDump ==
    \A t \in Threads :
        /\ pc[t] \in {"tc_dump", "tc_unlock"} => tree_lock = t
        /\ pc[t] = "tc_unlock" =>
             LET L == l_out[t]
                 r == l_obj[t]
                 D == {r} \cup {o \in Members : Dist(o, r) > 0}
                 depth(i) == Len(L[i].prefix)
             IN  /\ {L[i].obj : i \in 1..Len(L)} = D
                 /\ Len(L) = Cardinality(D)
                 /\ L[1].obj = r
                 /\ \A i \in 1..Len(L) : depth(i) = Dist(L[i].obj, r)
                 /\ \A i \in 2..Len(L) :
                      LET E == {k \in 1..(i-1) : depth(k) < depth(i)}
                          j == CHOOSE k \in E : \A m \in E : m <= k
                      IN  /\ E # {}
                          /\ L[j].obj = parent[L[i].obj]
                          /\ depth(j) = depth(i) - 1
                 /\ \A i \in 1..Len(L), j \in 1..Len(L) :
                      (i < j /\ i > 1 /\ parent[L[i].obj] = parent[L[j].obj])
                          => ListIndex(L[i].obj) < ListIndex(L[j].obj)

\* the dump of a root with two children, the first of which has a child
C10_Witness ==
    \E t \in Threads :
        /\ pc[t] = "tc_unlock" /\ Len(l_out[t]) = 4
        /\ Len(l_out[t][2].prefix) = 1
        /\ Len(l_out[t][3].prefix) = 2
        /\ Len(l_out[t][4].prefix) = 1

\* C11: a vlc_custom_create call whose allocation fails (the only step that
\* returns at once without allocating a block or handing out a reference)
\* changes no count, no command variable and not the collection; a call with a
\* parent that succeeds initialises the new block with count 1 and raises
\* the count of the parent by exactly one, and its second step appends the
\* new object at the end of the collection.
C11_Step ==
    /\ (pc' = pc /\ nops' # nops /\ alive' = alive /\ own' = own) =>
          UNCHANGED <<refs, parent, ndestroy, cmds, tree_list, tree_lock,
                      op, failed, pf_destructor, var_lock, events>>
    /\ \A t \in Threads :
        /\ (pc[t] = "idle" /\ pc'[t] = "cr_attach") =>
              LET a == l_obj'[t] IN
              /\ ~alive[a] /\ alive' = [alive EXCEPT ![a] = TRUE]
              /\ parent'[a] # NULL /\ alive[parent'[a]]
              /\ refs' = [refs EXCEPT ![a] = 1,
                                      ![parent'[a]] = refs[parent'[a]] + 1]
              /\ tree_list' = tree_list /\ cmds'[a] = {}
        /\ (pc[t] = "cr_attach" /\ pc'[t] # "cr_attach") =>
              /\ tree_list' = Append(tree_list, l_obj[t])
              /\ refs' = refs /\ alive' = alive
              /\ refs[l_obj[t]] = 1
              /\ own' = [own EXCEPT ![t][l_obj[t]] = @ + 1]

C11_Create == [][C11_Step]_vars

\* creations have failed before any block was ever allocated
C11_Witness ==
    /\ nops >= 1
    /\ \A o \in Objs : ~alive[o] /\ ndestroy[o] = 0
    /\ Quiescent

\* C13: every member of the collection is allocated, has a count of at
\* least 1 and is not being destroyed, whoever holds the lock; the step
\* that lowers the count of a parented object to 0 is taken with the lock
\* and removes the object from the collection; a slow-path decrement that
\* observes a count above 1 leaves the collection alone, and the call then
\* returns without destroying the object.
C13_Step ==
    /\ \A m \in Members :
         alive[m] /\ UGt(refs[m], 0) /\ Destroyers(m) = {}
    /\ \A o \in Objs :
         (alive[o] /\ parent[o] # NULL /\ refs[o] = 1 /\ refs'[o] = 0) =>
            /\ o \notin {tree_list'[i] : i \in 1..Len(tree_list')}
            /\ tree_lock = NULL /\ tree_lock' \in Threads
            /\ pc'[tree_lock'] = "rel_unlock" /\ l_obj'[tree_lock'] = o
    /\ \A t \in Threads :
         /\ (pc[t] = "rel_slow" /\ pc'[t] = "rel_unlock"
                /\ refs[l_obj[t]] # 1) => tree_list' = tree_list
         /\ (pc[t] = "rel_unlock" /\ pc'[t] # "rel_unlock" /\ l_refs[t] # 1) =>
              /\ pc'[t] \in {"idle", "vc_ret"}
              /\ alive' = alive /\ tree_list' = tree_list
              /\ l_obj[t] \in Members

C13_AtomicRemoval == [][C13_Step]_vars

\* a slow-path decrement has observed 2, because a walker held the object
\* after the releasing thread had read 1
C13_Witness ==
    \E t \in Threads :
        /\ pc[t] = "rel_unlock" /\ l_refs[t] = 2
        /\ l_obj[t] \in Members /\ refs[l_obj[t]] = 1

\* C14: a compare-and-swap of the fast path succeeds only on a count above
\* 1; it leaves a count of at least 1, lowers that one count by exactly one,
\* takes no lock, frees nothing, changes neither the collection nor any
\* other count, and the call returns; a failed one changes nothing shared
\* and continues from the count it has just read.
C14_Step ==
    \A t \in Threads :
        (pc[t] = "rel_cas" /\ (pc'[t] # "rel_cas" \/ l_refs'[t] # l_refs[t])) =>
            LET o == l_obj[t] IN
            /\ UNCHANGED <<tree_list, tree_lock, alive, parent, own, cmds>>
            /\ tree_lock # t
            /\ IF refs[o] = l_refs[t]
               THEN /\ refs[o] > 1
                    /\ refs' = [refs EXCEPT ![o] = @ - 1]
                    /\ refs'[o] >= 1
                    /\ pc'[t] \in {"idle", "vc_ret"}
               ELSE /\ refs' = refs
                    /\ l_refs'[t] = refs[o]
                    /\ l_obj'[t] = o
                    /\ pc'[t] = IF refs[o] > 1 THEN "rel_cas"
                                ELSE IF parent[o] = NULL THEN "rel_root"
                                ELSE "rel_slow"

C14_FastPath == [][C14_Step]_vars

\* the count has dropped to 1 under a thread that is about to try its
\* compare-and-swap with the 2 it had read
C14_Witness ==
    \E t \in Threads :
        pc[t] = "rel_cas" /\ l_refs[t] = 2 /\ refs[l_obj[t]] = 1

\* C15: when vlc_object_release has left the fast path for a parentless
\* object, the count is 1 until the call decrements it, the object has no
\* child in the collection, neither assertion of the root path fails, and
\* the call goes on to destroy the object.
C15_RootPath ==
    /\ failed \notin {"root_refs", "root_children"}
    /\ \A t \in Threads :
        /\ pc[t] = "rel_root" =>
              /\ parent[l_obj[t]] = NULL /\ alive[l_obj[t]]
              /\ refs[l_obj[t]] = 1 /\ l_refs[t] = 1
              /\ ~ObjectHasChildLocked(l_obj[t])
        /\ pc[t] = "rel_root_chk" =>
              /\ refs[l_obj[t]] = 0 /\ l_refs[t] = 1 /\ alive[l_obj[t]]
              /\ ~ObjectHasChildLocked(l_obj[t])
              /\ Destroyers(l_obj[t]) = {t}

\* the root path runs for an object whose last child has been destroyed
C15_Witness ==
    \E t \in Threads, c \in Objs :
        /\ pc[t] = "rel_root_chk"
        /\ ~alive[c] /\ ndestroy[c] = 1 /\ parent[c] = l_obj[t]

\* references on x owned by clients: those handed to them and those a
\* running create, vlc_list_children or vars command has just taken
ClientRefs(x) ==
    SumOver(Threads, [t \in Threads |->
        own[t][x]
      + (IF pc[t] \in {"cr_attach", "cr_vars"} /\ l_obj[t] = x THEN 1 ELSE 0)
      + (IF pc[t] = "lc_iter" THEN Occurs(l_tab[t], x) ELSE 0)
      + (IF pc[t] = "vc_unlock" /\ l_p[t] = x THEN 1 ELSE 0)
      + (IF pc[t] \in {"vc_dump", "vc_vars"} /\ l_obj[t] = x THEN 1 ELSE 0)])

\* release calls on x that have started and not decremented yet, split into
\* those a client made and those made for a destroyed child of x
HalfReleased(x) ==
    {t \in Threads : pc[t] \in BeforeDecrement /\ l_obj[t] = x}

\* C16: when no release call is half-executed on x, the count of an
\* allocated object x is the number of references clients own on x plus the
\* number of allocated objects created with parent x; each half-executed
\* release call on x, made by a client or for a destroyed child, accounts
\* for one more.
C16_RefsAccounting ==
    \A x \in Objs :
        alive[x] =>
            /\ refs[x] = ClientRefs(x) + ChildRefs(x)
                         + Cardinality(HalfReleased(x))
            /\ HalfReleased(x) = {} => refs[x] = ClientRefs(x) + ChildRefs(x)

\* an object counted 3: one reference of a client, one of a live child and
\* one of a destroyed child whose release of the parent has not run yet
C16_Witness ==
    \E x \in Objs, t \in Threads, c \in Objs :
        /\ alive[x] /\ refs[x] = 3 /\ ChildRefs(x) = 1 /\ ClientRefs(x) = 1
        /\ pc[t] = "rel_load" /\ l_obj[t] = x
        /\ ~alive[c] /\ parent[c] = x /\ ndestroy[c] = 1

\* the statement of C17 as written: an allocated object is a member of the
\* collection if and only if it has a parent
C17_Original ==
    \A o \in Objs : alive[o] => ((o \in Members) = (parent[o] # NULL))

\* C17 (amended): no parentless object is in the collection, and an
\* allocated object with a parent is in the collection exactly from the
\* moment vlc_custom_create has appended it until the release call that
\* removes its last reference has decremented its count.
C17_Membership ==
    /\ \A o \in Members : alive[o] /\ parent[o] # NULL
    /\ \A o \in Objs :
         (alive[o] /\ parent[o] # NULL) =>
            ((o \in Members) =
                (/\ ~\E t \in Threads : pc[t] = "cr_attach" /\ l_obj[t] = o
                 /\ Destroyers(o) = {}))
    /\ \A i \in 1..Len(tree_list), j \in 1..Len(tree_list) :
         i # j => tree_list[i] # tree_list[j]

\* one object is being appended while another, removed from the
\* collection, waits to be destroyed
C17_Witness ==
    \E t \in Threads, u \in Threads :
        /\ pc[t] = "cr_attach"
        /\ pc[u] \in {"rel_chk", "rel_destroy"} /\ parent[l_obj[u]] # NULL

\* ------------------------------------------------------- the event log
\* positions of the call named n in the log of o
Pos(o, n) == {i \in 1..Len(events[o]) : events[o][i].ev = n}

\* every call named a in the log of o comes before every call named b
Before(o, a, b) == \A i \in Pos(o, a), j \in Pos(o, b) : i < j

\* thread t is inside vlc_object_destroy(o), past the destructor
InDestroy(t, o) == pc[t] = "rel_destroy" /\ l_obj[t] = o

\* thread t is inside vlc_custom_create, registering the commands of o
InCreateVars(t, o) == pc[t] = "cr_vars" /\ l_obj[t] = o

RootCommandCalls ==
    {"var_Create tree", "var_AddCallback tree",
     "var_Create vars", "var_AddCallback vars",
     "var_DelCallback vars", "var_DelCallback tree"}

\* the statement of C12 as written: at most one allocated object has no
\* parent, and no other object has a command registered
C12_Original ==
    /\ Cardinality({o \in Objs : alive[o] /\ parent[o] = NULL}) <= 1
    /\ \A o \in Objs :
         cmds[o] # {} => (alive[o] /\ parent[o] = NULL)

\* C12 (amended): any number of allocated objects may have no parent; an
\* allocated object has the commands "tree" and "vars" registered exactly
\* when it has no parent, its creation has returned and its destruction has
\* not begun, and it has no command registered otherwise; each command is
\* created and registered once, at creation, and its callback is removed
\* once, during destruction, before var_DestroyAll.
C12_RootCommands ==
    \A o \in Objs :
        /\ alive[o] =>
             cmds[o] = IF /\ parent[o] = NULL
                          /\ \A t \in Threads :
                                ~InCreateVars(t, o) /\ ~InDestroy(t, o)
                       THEN {"tree", "vars"} ELSE {}
        /\ ~alive[o] => cmds[o] = {}
        /\ \A n \in RootCommandCalls :
             /\ Cardinality(Pos(o, n)) <= 1
             /\ Pos(o, n) # {} => parent[o] = NULL
        /\ Before(o, "var_Create tree", "var_AddCallback tree")
        /\ Before(o, "var_Create vars", "var_AddCallback vars")
        /\ Before(o, "var_AddCallback tree", "var_DelCallback tree")
        /\ Before(o, "var_AddCallback vars", "var_DelCallback vars")
        /\ Before(o, "var_DelCallback tree", "var_DestroyAll")
        /\ Before(o, "var_DelCallback vars", "var_DestroyAll")
        /\ (parent[o] = NULL /\ Pos(o, "var_DestroyAll") # {}) =>
             \A n \in RootCommandCalls : Pos(o, n) # {}

\* two parentless objects with their commands, and a third one destroyed
C12_Witness ==
    \E a \in Objs, b \in Objs, c \in Objs :
        /\ a # b
        /\ alive[a] /\ parent[a] = NULL /\ cmds[a] = {"tree", "vars"}
        /\ alive[b] /\ parent[b] = NULL /\ cmds[b] = {"tree", "vars"}
        /\ ~alive[c] /\ ndestroy[c] = 1 /\ parent[c] = NULL
        /\ Pos(c, "var_DestroyAll") # {}

\* no thread holds the structural lock and a variable lock at the same
\* time: a variable lock is held only inside the variable calls of root
\* creation, of vlc_object_destroy and of the vars command's dump, all with
\* the structural lock released, and the structural lock is held only
\* inside the critical sections of release, vlc_list_children and the two
\* commands, none of which holds a variable lock.
C18_LocksNeverNested ==
    /\ \A t \in Threads, o \in Objs :
         var_lock[o] = t =>
            /\ tree_lock # t
            /\ l_obj[t] = o
            /\ pc[t] \in {"cr_vars", "rel_destroy", "vc_vars"}
    /\ \A t \in Threads :
         tree_lock = t =>
            /\ pc[t] \in {"rel_unlock", "lc_iter", "tc_dump", "tc_unlock",
                          "vc_unlock"}
            /\ \A o \in Objs : var_lock[o] # t

\* a step of a thread that holds one of the locks acquires none of the other
C18_Step ==
    \A t \in Threads :
        /\ tree_lock = t =>
              \A o \in Objs : var_lock'[o] = t => var_lock[o] = t
        /\ (\E o \in Objs : var_lock[o] = t) =>
              (tree_lock' = t => tree_lock = t)

\* C18: in every state no thread holds both kinds of lock, and no step of a
\* thread that holds one kind acquires the other.
C18_NoNestedAcquire == []C18_LocksNeverNested /\ [][C18_Step]_vars

\* one thread dumps the variables of an object while the other thread is in
\* a critical section of the structural lock
C18_Witness ==
    \E t \in Threads, u \in Threads, o \in Objs :
        /\ var_lock[o] = t /\ pc[t] = "vc_vars"
        /\ tree_lock = u

\* during destruction: var_DestroyAll runs with the structural lock free or
\* in the hands of another thread
C18_WitnessDestroy ==
    \E t \in Threads, u \in Threads, o \in Objs :
        /\ var_lock[o] = t /\ pc[t] = "rel_destroy" /\ parent[o] # NULL
        /\ tree_lock = u

\* the calls vlc_object_destroy can make
DestroySteps ==
    {"pf_destructor", "var_DelCallback vars", "var_DelCallback tree",
     "var_DestroyAll", "vlc_cond_destroy", "vlc_mutex_destroy", "free"}

\* C19: the calls of a destruction are made in order, each at most once:
\* the destructor set last (if one is set) first, then the removal of the
\* two callbacks of a parentless object, then var_DestroyAll, then the
\* destruction of the condition and of the lock, then free; the destructor
\* is called only by the thread that destroys the object.
C19_DestructionOrder ==
    \A o \in Objs :
        /\ \A n \in DestroySteps : Cardinality(Pos(o, n)) <= 1
        /\ \A i \in Pos(o, "pf_destructor") :
             /\ lastfn[o] # NULL /\ events[o][i].fn = lastfn[o]
             /\ \/ \E t \in Threads : InDestroy(t, o) /\ l_refs[t] = 1
                \/ ~alive[o] /\ ndestroy[o] = 1
        /\ \A n \in DestroySteps \ {"pf_destructor"} :
             Before(o, "pf_destructor", n)
        /\ Before(o, "var_DelCallback vars", "var_DestroyAll")
        /\ Before(o, "var_DelCallback tree", "var_DestroyAll")
        /\ Before(o, "var_DestroyAll", "vlc_cond_destroy")
        /\ Before(o, "var_DestroyAll", "vlc_mutex_destroy")
        /\ Before(o, "vlc_cond_destroy", "free")
        /\ Before(o, "vlc_mutex_destroy", "free")
        /\ (Pos(o, "free") # {}) = (~alive[o] /\ ndestroy[o] = 1)
        /\ Pos(o, "free") # {} =>
             /\ Pos(o, "free") = {Len(events[o])}
             /\ (Pos(o, "pf_destructor") # {}) = (lastfn[o] # NULL)
             /\ (Pos(o, "var_DelCallback vars") # {}) = (parent[o] = NULL)
             /\ (Pos(o, "var_DelCallback tree") # {}) = (parent[o] = NULL)
             /\ Pos(o, "var_DestroyAll") # {}
             /\ Pos(o, "vlc_cond_destroy") # {}
             /\ Pos(o, "vlc_mutex_destroy") # {}
        /\ (alive[o] /\ \A t \in Threads : ~InDestroy(t, o)) =>
             \A n \in DestroySteps : Pos(o, n) = {}

\* a destroyed parentless object whose destructor ran, and a destroyed
\* child of it that had none
C19_Witness ==
    \E r \in Objs, c \in Objs :
        /\ ~alive[r] /\ ndestroy[r] = 1 /\ parent[r] = NULL
        /\ Pos(r, "pf_destructor") # {}
        /\ ~alive[c] /\ ndestroy[c] = 1 /\ parent[c] = r
        /\ Pos(c, "pf_destructor") = {} /\ Pos(c, "free") # {}

\* the unfolded recursion prints what the recursive definition gives
DeepAgrees ==
    \A t \in Threads :
        (pc[t] = "tc_unlock" /\ Len(parent) <= DeepExtra) =>
            l_out[t] = DumpStructure(l_obj[t], 0)

\* C20: DumpStructure makes no call at a level above DumpMaxLevel and
\* prints no object nested more than DumpMaxLevel levels below the dumped
\* object (the prefix of a line has one entry per level).
C20_DumpCapped ==
    \A t \in Threads :
        /\ \A i \in 1..Len(l_stack[t]) : l_stack[t][i].level <= DumpMaxLevel
        /\ \A i \in 1..Len(l_out[t]) :
              Len(l_out[t][i].prefix) <= DumpMaxLevel

\* what the code does instead: one level more is called and printed
C20_CappedOneLater ==
    \A t \in Threads :
        /\ \A i \in 1..Len(l_stack[t]) :
              l_stack[t][i].level <= DumpMaxLevel + 1
        /\ \A i \in 1..Len(l_out[t]) :
              Len(l_out[t][i].prefix) <= DumpMaxLevel + 1
        /\ pc[t] = "tc_unlock" =>
              Len(l_out[t]) = IF Len(parent) <= DumpMaxLevel + 2
                              THEN Len(parent) ELSE DumpMaxLevel + 2

\* positions of vlc_object_release from the unlock of the slow path on
AfterUnlock == {"rel_root_chk", "rel_chk", "rel_hook", "rel_destroy"}

\* thread t releases o because it has destroyed a child of o
Cascading(t, o) ==
    /\ op[t] \in {"release", "vars"} /\ l_obj[t] = o
    /\ pc[t] \in BeforeDecrement \cup AfterLast
    /\ \E c \in Objs : ~alive[c] /\ ndestroy[c] = 1 /\ parent[c] = o

\* the lock is released before the assertion on the children,
\* vlc_object_destroy, the destructor and the release of the parent, and
\* no block is destroyed twice
C21_LockDropped ==
    /\ \A t \in Threads :
         /\ pc[t] \in AfterUnlock => tree_lock # t
         /\ pc[t] \in BeforeDecrement => tree_lock # t
         /\ pc[t] = "idle" =>
              (tree_lock # t /\ \A o \in Objs : var_lock[o] # t)
    /\ \A o \in Objs : ndestroy[o] <= 1
    /\ Running

\* C21: under fair scheduling every call that has started returns (the
\* thread is idle again), the structural lock is not held by a thread that
\* returned, that is about to destroy an object or that starts the release
\* of a parent, and no block is destroyed more than once.
C21_Terminates ==
    /\ []C21_LockDropped
    /\ \A t \in Threads : (pc[t] # "idle") ~> (pc[t] = "idle")

\* a release that has destroyed a child is about to destroy its parent
C21_Witness ==
    \E t \in Threads :
        /\ pc[t] = "rel_destroy" /\ Cascading(t, l_obj[t])
        /\ l_refs[t] = 1

\* a release waits for the structural lock that another thread holds
C21_WitnessBlocked ==
    \E t \in Threads, u \in Threads :
        /\ pc[t] \in {"rel_slow", "rel_chk", "rel_root_chk"}
        /\ tree_lock = u /\ u # t

====
